---- MODULE Spec2Model ----
(***************************************************************************)
(* Authentication and session issuance of the Python Co-Lab server         *)
(* (Express + better-sqlite3 + jsonwebtoken).                              *)
(*                                                                         *)
(* The database file app.db is the shared state.  Server processes started *)
(* in the same directory run the bootstrap at module load, statement by    *)
(* statement, and then listen on the one PORT: one of them gets it and     *)
(* serves.  The serving process runs its JavaScript to completion between  *)
(* awaits (better-sqlite3 is synchronous), so callback requests in flight  *)
(* interleave at their awaits only.                                        *)
(*                                                                         *)
(* SpecClient puts one browser on the server: the App component of the     *)
(* primary window (fetchUser, the message listener, handleLogin,           *)
(* handleLogout), the window oauth_popup and the browser's cookies.        *)
(***************************************************************************)
EXTENDS Integers, FiniteSets, Sequences, TLC

\* ------------------------------------------------------------ bounds
MaxLogins == 2      \* callback requests the clients send in one behaviour
MaxTime   == 1      \* the clock runs from 0 to MaxTime (unit: one week)
MaxEmails == 2      \* entries in the provider's email list
MaxFetches == 1     \* who-am-I calls the primary window has in flight at once

\* ------------------------------------------------------------ constants
OneWeek == 1        \* expiresIn: "7d", in clock units

Procs       == {1, 2}                 \* server processes started on the same app.db
Slots       == {1, 2}                 \* callback requests the server has in flight
SeedEmail   == "config.shu@gmail.com"
Emails      == {SeedEmail, "b@x.com"}
NewNicks    == {"custom"}             \* accepted bodies of PUT nickname
BadNicks    == {"", " "}              \* rejected bodies of PUT nickname
JWT_SECRET  == "super-secret-key-for-dev"
None        == "none"                 \* undefined / no row / no cookie
Null        == [null |-> TRUE]        \* null (useState<User | null>, event.data)
Fetches     == 1 .. MaxFetches        \* places for the who-am-I calls in flight

VARIABLES
    bootPc,     \* per process: position in the start-up
    admitted,   \* table admitted_users: the set of emails
    added_at,   \* table admitted_users: its rows in the order of their inserts,
                \* each with whether its added_at equals that of the row before
                \* it (CURRENT_TIMESTAMP counts whole seconds), and whether the
                \* second of the last insert may still be the current one
    users,      \* table users: set of rows [id, email, nickname, avatar_url]
    cb,         \* per slot: the callback request in flight, or its response
    issued,     \* every jwt.sign so far: the payload it was given and its token
    now,        \* the clock
    budget,     \* callback requests the clients have still to send
    setNick,    \* per user id: the handle of the login that created the row, or
                \* the body of the last accepted PUT nickname since
    mounted,    \* browser: the App component is mounted in the primary window
    user,       \* browser: App's state `user` (None for null)
    loading,    \* browser: App's state `loading`
    fetches,    \* browser: the who-am-I calls of fetchUser in flight
    logoutPc,   \* browser: position of handleLogout
    jar,        \* browser: the cookies it holds for the application
    popup,      \* browser: the window named oauth_popup
    overtaken,  \* browser, history: per who-am-I call in flight, where a logout
                \* stands that began while the call was in flight: "started",
                \* "completed" (handleLogout has set user to null and no message
                \* has been accepted since), or "none"
    inbox       \* browser: messages the popup has posted to the primary window, not yet handled

server == <<bootPc, admitted, added_at, users, cb, issued, now, budget, setNick>>
client == <<mounted, user, loading, fetches, logoutPc, jar, popup, inbox, overtaken>>
vars == <<bootPc, admitted, added_at, users, cb, issued, now, budget, setNick,
          mounted, user, loading, fetches, logoutPc, jar, popup, inbox, overtaken>>

\* ------------------------------------------------------------ values
Digit(d) ==
    CASE d = 0 -> "0" [] d = 1 -> "1" [] d = 2 -> "2" [] d = 3 -> "3"
      [] d = 4 -> "4" [] d = 5 -> "5" [] d = 6 -> "6" [] d = 7 -> "7"
      [] d = 8 -> "8" [] d = 9 -> "9"

RECURSIVE toString(_)
\* Number.prototype.toString(): the decimal digits of n
toString(n) == IF n < 10 THEN Digit(n) ELSE toString(n \div 10) \o Digit(n % 10)

\* what GET https://api.github.com/user can return: account 1 before and after
\* its owner renamed it and changed the picture, and account 2
Profiles ==
    { [id |-> 1, login |-> "octocat",   avatar_url |-> "v1"],
      [id |-> 1, login |-> "newhandle", avatar_url |-> "v2"],
      [id |-> 2, login |-> "hubot",     avatar_url |-> "v1"] }
ProviderIds == {d.id : d \in Profiles}
NoProfile == [id |-> 0, login |-> "", avatar_url |-> ""]

\* the body of an error answer of that endpoint (rate limit, server error), as
\* userRes.json() returns it whatever the status: { message }, so that id, login
\* and avatar_url read as undefined (id 0 stands for the undefined id)
ProfileError == [id |-> 0, login |-> None, avatar_url |-> None]

\* what userRes.json() can return: the status of the answer is never looked at
ProfileAnswers == Profiles \cup {ProfileError}

\* what GET https://api.github.com/user/emails can return
EmailEntries == [email : Emails \cup {None}, primary : BOOLEAN]
EmailLists == UNION {[1..n -> EmailEntries] : n \in 0..MaxEmails}

\* a selection that takes the first entry whatever is flagged
SelectEmail_First(list) == IF Len(list) > 0 THEN list[1].email ELSE None

\* emails.find(e => e.primary) || emails[0], then ?.email
SelectEmail(list) ==
    LET flagged == {i \in 1..Len(list) : list[i].primary}
        first   == CHOOSE i \in flagged : \A j \in flagged : i <= j
    IN  IF flagged # {} THEN list[first].email
        ELSE IF Len(list) > 0 THEN list[1].email
        ELSE None

\* ------------------------------------------------------------ tokens
ClaimKeys == {"id", "email", "nickname", "avatar_url"}

\* JSON.stringify of the payload object: members whose value is undefined are left out
JsonStringify(obj) == [k \in {k \in DOMAIN obj : obj[k] # None} |-> obj[k]]

\* JSON.parse, read through the claim names: a missing member reads as undefined
JsonParse(body) == [k \in ClaimKeys |-> IF k \in DOMAIN body THEN body[k] ELSE None]

NoToken == [absent |-> TRUE]

\* jwt.sign(payload, secret, {expiresIn: "7d"}) at time t
jwt_sign(payload, secret, t) ==
    [body |-> JsonStringify(payload), iat |-> t, exp |-> t + OneWeek, sig |-> secret]

\* a verification that still accepts the token at the instant it expires
jwt_verify_Inclusive(token, secret, t) == token.sig = secret /\ t <= token.exp

\* jwt.verify(token, secret) at time t: TRUE when it returns, FALSE when it throws
jwt_verify(token, secret, t) == token.sig = secret /\ t < token.exp

\* a decoder that reads the nickname from the wrong member
jwt_decoded_Swapped(token) ==
    [JsonParse(token.body) EXCEPT !["nickname"] = JsonParse(token.body)["email"]]

\* the decoded payload jwt.verify returns
jwt_decoded(token) == JsonParse(token.body)

\* a token for account 1 signed by somebody else, with a far expiry
Forged ==
    [body |-> [id |-> "1", email |-> SeedEmail, nickname |-> "octocat", avatar_url |-> "v1"],
     iat |-> 0, exp |-> MaxTime + OneWeek, sig |-> "attacker-key"]

\* the tokens the server has handed out
Tokens == {x.token : x \in issued}

\* what a request can carry in its auth_token cookie
Credentials == Tokens \cup {NoToken, Forged}

\* a middleware that decodes the cookie and never verifies it
authenticate_Decode(token) ==
    IF token = NoToken THEN [status |-> 401, error |-> "Unauthorized"]
    ELSE [status |-> 200, user |-> jwt_decoded(token)]

\* middleware authenticate: 401 without calling next(), or req.user = decoded
authenticate(token) ==
    IF token = NoToken THEN [status |-> 401, error |-> "Unauthorized"]
    ELSE IF jwt_verify(token, JWT_SECRET, now)
         THEN [status |-> 200, user |-> jwt_decoded(token)]
         ELSE [status |-> 401, error |-> "Invalid token"]

\* ------------------------------------------------------------ tables
\* a handler that lets every email through
IsAdmitted_Any(email) == TRUE

\* SELECT * FROM admitted_users WHERE email = ?  (truthy when a row is found)
IsAdmitted(email) == email \in admitted

\* SELECT * FROM users WHERE email = ?
UsersByEmail(email) == {u \in users : u.email = email}

\* SELECT id, email, nickname, avatar_url FROM users WHERE id = ?
UsersById(id) == {u \in users : u.id = id}

\* users.id is PRIMARY KEY and users.email is UNIQUE: the insert throws on either
InsertConflicts(row) == \E u \in users : u.id = row.id \/ u.email = row.email

\* a handler that takes the nickname from the provider's answer at every login
LoginNickname_Provider(existing, userData) == userData.login

\* existingUser?.nickname || userData.login
LoginNickname(existing, userData) ==
    IF existing # {} /\ (CHOOSE u \in existing : TRUE).nickname # ""
    THEN (CHOOSE u \in existing : TRUE).nickname
    ELSE userData.login

\* a payload that takes the id from the provider's answer, not from the row
TokenPayload_Provider(userId, email, nickname, userData) ==
    [id |-> toString(userData.id), email |-> email, nickname |-> nickname,
     avatar_url |-> userData.avatar_url]

\* the payload of the token: { id: userId, email, nickname, avatar_url: userData.avatar_url }
TokenPayload(userId, email, nickname, userData) ==
    [id |-> userId, email |-> email, nickname |-> nickname,
     avatar_url |-> userData.avatar_url]

\* ------------------------------------------------------------ state
Idle == [pc |-> "idle", accessToken |-> None, userData |-> NoProfile, email |-> "",
         status |-> 0, token |-> NoToken, check |-> "none", overlap |-> FALSE]

\* the request of slot s waits at one of its awaits
InFlight(s) == cb[s].pc \in {"token", "profile", "emails"}

\* the response of a callback: its status and the cookie it set; beside them the
\* email it resolved, what the admission table held when it was read, and
\* whether the other slot's request was in flight at some time during this one
Done(c, status, token) ==
    [c EXCEPT !.pc = "done", !.accessToken = None, !.userData = NoProfile,
              !.status = status, !.token = token]

\* the process listens on PORT
Serving(p) == bootPc[p] = "serving"

\* some process takes requests
Up == \E p \in Procs : Serving(p)

\* admitted_users without rows
NoRows == [rows |-> <<>>, open |-> FALSE]

\* added_at DEFAULT CURRENT_TIMESTAMP of a new row: the second of the row
\* inserted last, when that second has not passed, or a later one
Ties == IF added_at.open /\ added_at.rows # <<>> THEN BOOLEAN ELSE {FALSE}

\* INSERT INTO admitted_users (email) VALUES (?): the row goes behind the others
InsertRow(email, tie) ==
    [rows |-> Append(added_at.rows, [email |-> email, tie |-> tie]), open |-> TRUE]

\* DELETE FROM admitted_users WHERE email = ?: the other rows keep their
\* order and their added_at
DeleteRow(email) ==
    LET r == added_at.rows
        n == Len(r)
        K == {k \in 1 .. n : r[k].email = email}
    IN  IF K = {} THEN added_at
        ELSE LET k == CHOOSE x \in K : TRUE IN
             [rows |-> [i \in 1 .. n - 1 |->
                          IF i < k THEN r[i]
                          ELSE IF i = k THEN [r[i + 1] EXCEPT !.tie = @ /\ r[k].tie]
                          ELSE r[i + 1]],
              open |-> IF k = n THEN added_at.open /\ r[k].tie ELSE added_at.open]

\* the added_at of row i, counted in distinct values from the oldest row
AddedAt(i) == Cardinality({j \in 1 .. i : ~added_at.rows[j].tie})

\* SELECT email, added_at FROM admitted_users ORDER BY added_at DESC: the
\* orders the query may return the rows in; rows of equal added_at come in an
\* order the query does not fix
ListOrders ==
    LET n == Len(added_at.rows) IN
    {out \in [1 .. n -> 1 .. n] :
        /\ \A a, b \in 1 .. n : a # b => out[a] # out[b]
        /\ \A a, b \in 1 .. n : a < b => AddedAt(out[a]) >= AddedAt(out[b])}

\* the window oauth_popup: what it shows, and the slot of its callback request
Popup(pc, slot) == [pc |-> pc, slot |-> slot]

\* no who-am-I call in this place
NoFetch == [pc |-> "free"]

\* a browser that has not loaded the application yet
Unloaded ==
    /\ mounted = FALSE
    /\ user = Null
    /\ loading = TRUE
    /\ fetches = [i \in Fetches |-> NoFetch]
    /\ logoutPc = "idle"
    /\ jar = {}
    /\ popup = Popup("closed", 0)
    /\ inbox = <<>>
    /\ overtaken = [i \in Fetches |-> "none"]

\* app.db does not exist yet; the processes in `started` are launched
Fresh(started, requests) ==
    /\ Unloaded
    /\ bootPc = [p \in Procs |-> IF p \in started THEN "count" ELSE "off"]
    /\ admitted = {}
    /\ added_at = NoRows
    /\ users = {}
    /\ cb = [s \in Slots |-> Idle]
    /\ issued = {}
    /\ now = 0
    /\ budget = requests
    /\ setNick = [i \in {toString(n) : n \in ProviderIds} |-> None]

\* the server is started once
Init == Fresh({1}, MaxLogins)

\* the server is started twice at the same time
InitTwo == Fresh(Procs, MaxLogins)

\* the server is started once and the clients send one more callback request
InitMore == Fresh({1}, MaxLogins + 1)

\* ------------------------------------------------------------ bootstrap
\* SELECT COUNT(*) FROM admitted_users; if (count === 0)
BootCount(p) ==
    /\ bootPc[p] = "count"
    /\ bootPc' = [bootPc EXCEPT ![p] = IF Cardinality(admitted) = 0 THEN "seed" ELSE "listen"]
    /\ UNCHANGED <<admitted, added_at, users, cb, issued, now, budget, setNick>>

\* INSERT INTO admitted_users (email) VALUES (seed): email is PRIMARY KEY, a
\* conflict throws at module load and the process ends
BootSeed(p) ==
    /\ bootPc[p] = "seed"
    /\ IF SeedEmail \in admitted
       THEN /\ bootPc' = [bootPc EXCEPT ![p] = "sqlite_error"]
            /\ UNCHANGED <<admitted, added_at>>
       ELSE /\ bootPc' = [bootPc EXCEPT ![p] = "listen"]
            /\ admitted' = admitted \cup {SeedEmail}
            /\ \E tie \in Ties : added_at' = InsertRow(SeedEmail, tie)
    /\ UNCHANGED <<users, cb, issued, now, budget, setNick>>

\* app.listen(PORT, "0.0.0.0"): the port is free, or the listen fails with
\* EADDRINUSE, which nothing handles
Listen(p) ==
    /\ bootPc[p] = "listen"
    /\ bootPc' = [bootPc EXCEPT ![p] = IF Up THEN "eaddrinuse" ELSE "serving"]
    /\ UNCHANGED <<admitted, added_at, users, cb, issued, now, budget, setNick>>

\* ------------------------------------------------------------ callback
\* GET /api/auth/github/callback, up to the first await; the request is kept in
\* the first slot that holds no request in flight
CallbackStart(s) ==
    /\ Up
    /\ cb[s].pc \in {"idle", "done"}
    /\ \A r \in Slots : r < s => InFlight(r)
    /\ budget > 0
    /\ budget' = budget - 1
    /\ \E code \in {"", "c0de"}, clientId \in {"", "id"}, clientSecret \in {"", "secret"} :
         IF code = "" \/ clientId = "" \/ clientSecret = ""
         THEN cb' = [cb EXCEPT ![s] = Done(Idle, 400, NoToken)]
         ELSE cb' = [r \in Slots |->
                       IF r = s
                       THEN [Idle EXCEPT !.pc = "token",
                                         !.overlap = \E o \in Slots : InFlight(o)]
                       ELSE IF InFlight(r) THEN [cb[r] EXCEPT !.overlap = TRUE]
                       ELSE cb[r]]
    /\ UNCHANGED <<bootPc, admitted, added_at, users, issued, now, setNick>>

\* a handler that goes on to the profile without looking at the access token
TokenMissing_Unchecked(tokenData) == FALSE

\* if (!accessToken) throw
TokenMissing(tokenData) == tokenData.access_token = None

\* the token endpoint answers: an access token, a body without one, or a transport error
ProviderToken(s) ==
    /\ cb[s].pc = "token"
    /\ \/ cb' = [cb EXCEPT ![s] = Done(@, 500, NoToken)]
       \/ \E tokenData \in {[access_token |-> "gho_1"], [access_token |-> None]} :
            cb' = [cb EXCEPT ![s] =
                     IF TokenMissing(tokenData)
                     THEN Done(@, 500, NoToken)
                     ELSE [@ EXCEPT !.pc = "profile",
                                    !.accessToken = tokenData.access_token]]
    /\ UNCHANGED <<bootPc, admitted, added_at, users, issued, now, budget, setNick>>

\* the profile endpoint answers, or the transport fails
ProviderProfile(s) ==
    /\ cb[s].pc = "profile"
    /\ \/ cb' = [cb EXCEPT ![s] = Done(@, 500, NoToken)]
       \/ \E userData \in ProfileAnswers :
            cb' = [cb EXCEPT ![s] = [@ EXCEPT !.pc = "emails", !.userData = userData]]
    /\ UNCHANGED <<bootPc, admitted, added_at, users, issued, now, budget, setNick>>

\* the email endpoint's transport fails, or no email can be selected: catch, 500
EmailsFail(s) ==
    /\ cb[s].pc = "emails"
    /\ \/ cb' = [cb EXCEPT ![s] = Done(@, 500, NoToken)]
       \/ \E emails \in EmailLists :
            /\ SelectEmail(emails) = None
            /\ cb' = [cb EXCEPT ![s] = Done(@, 500, NoToken)]
    /\ UNCHANGED <<bootPc, admitted, added_at, users, issued, now, budget, setNick>>

\* userData.id.toString() throws a TypeError when userData has no id
IdToStringThrows(userData) == userData.id = 0

\* a handler that takes the id from the provider's answer at every login
LoginUserId_Provider(existing, userData) == toString(userData.id)

\* let userId = existingUser?.id; if (!existingUser) userId = userData.id.toString()
LoginUserId(existing, userData) ==
    IF existing # {} THEN (CHOOSE u \in existing : TRUE).id ELSE toString(userData.id)

\* an insert that stores the same placeholder handle for every user
NewRow_Placeholder(userId, email, nickname, userData) ==
    [id |-> userId, email |-> email, nickname |-> "user",
     avatar_url |-> userData.avatar_url]

\* the row the upsert inserts for a user it did not find
NewRow(userId, email, nickname, userData) ==
    [id |-> userId, email |-> email, nickname |-> nickname,
     avatar_url |-> userData.avatar_url]

\* the rest of the handler after its last await, which runs without a break,
\* for the email selected: admission check, upsert, jwt.sign, res.cookie,
\* res.send, and the catch around them
Login(s, email) ==
    LET c        == cb[s]
        seen     == IF email \in admitted THEN "in" ELSE "out"
        checked  == [c EXCEPT !.email = email, !.check = seen]
        existing == UsersByEmail(email)
        userId   == LoginUserId(existing, c.userData)
        nickname == LoginNickname(existing, c.userData)
        row      == NewRow(userId, email, nickname, c.userData)
        payload  == TokenPayload(userId, email, nickname, c.userData)
        token    == jwt_sign(payload, JWT_SECRET, now)
        signed   == [payload |-> payload, token |-> token]
    IN  /\ email # None
        /\ IF ~IsAdmitted(email)
           THEN /\ cb' = [cb EXCEPT ![s] = Done(checked, 403, NoToken)]
                /\ UNCHANGED <<users, issued, setNick>>
           ELSE IF existing # {}
           THEN /\ cb' = [cb EXCEPT ![s] = Done(checked, 200, token)]
                /\ issued' = issued \cup {signed}
                /\ UNCHANGED <<users, setNick>>
           ELSE IF IdToStringThrows(c.userData) \/ InsertConflicts(row)
           THEN /\ cb' = [cb EXCEPT ![s] = Done(checked, 500, NoToken)]
                /\ UNCHANGED <<users, issued, setNick>>
           ELSE /\ users' = users \cup {row}
                /\ setNick' = [setNick EXCEPT ![row.id] = c.userData.login]
                /\ cb' = [cb EXCEPT ![s] = Done(checked, 200, token)]
                /\ issued' = issued \cup {signed}

\* the email endpoint answers with a list, and an email is selected from it
EmailsLogin(s) ==
    /\ cb[s].pc = "emails"
    /\ \E email \in {SelectEmail(emails) : emails \in EmailLists} : Login(s, email)
    /\ UNCHANGED <<bootPc, admitted, added_at, now, budget>>

\* ------------------------------------------------------------ other routes
\* String.prototype.trim() on the bodies the model sends
Trim(s) == IF s = " " THEN "" ELSE s

\* a handler that answers with the token's claims and never reads the row
MeResponse_Claims(token) ==
    LET a == authenticate(token) IN
    IF a.status # 200 THEN a ELSE [status |-> 200, body |-> a.user]

\* GET /api/auth/me: res.json(dbUser || user)
MeResponse(token) ==
    LET a == authenticate(token) IN
    IF a.status # 200 THEN a
    ELSE LET dbUser == UsersById(a.user.id) IN
         [status |-> 200,
          body |-> IF dbUser # {} THEN CHOOSE u \in dbUser : TRUE ELSE a.user]

\* an update that deletes the row it should change
SetNickname_Drop(id, nickname) == {u \in users : u.id # id}

\* UPDATE users SET nickname = ? WHERE id = ?
SetNickname(id, nickname) ==
    {IF u.id = id THEN [u EXCEPT !.nickname = nickname] ELSE u : u \in users}

\* PUT /api/users/me/nickname: what it answers
NicknameResponse(token, nickname) ==
    LET a == authenticate(token) IN
    IF a.status # 200 THEN a
    ELSE IF nickname = "" \/ Trim(nickname) = ""
         THEN [status |-> 400, error |-> "Nickname cannot be empty"]
         ELSE [status |-> 200, success |-> TRUE, nickname |-> nickname]

\* PUT /api/users/me/nickname: the users table it leaves
NicknameStore(token, nickname) ==
    IF NicknameResponse(token, nickname).status = 200
    THEN SetNickname(authenticate(token).user.id, nickname)
    ELSE users

\* PUT /api/users/me/nickname
UpdateNickname(token, nickname) ==
    /\ Up
    /\ users' = NicknameStore(token, nickname)
    /\ setNick' = IF NicknameResponse(token, nickname).status = 200
                  THEN [setNick EXCEPT ![authenticate(token).user.id] = nickname]
                  ELSE setNick
    /\ UNCHANGED <<bootPc, admitted, added_at, cb, issued, now, budget>>

\* a list route that looks the caller's email up in admitted_users first
ListAdmittedResponse_Members(token) ==
    LET a == authenticate(token) IN
    IF a.status # 200 THEN a
    ELSE IF a.user.email \notin admitted THEN [status |-> 403, error |-> "Forbidden"]
    ELSE [status |-> 200, body |-> admitted]

\* GET /api/admin/admitted: SELECT email, added_at FROM admitted_users
ListAdmittedResponse(token) ==
    LET a == authenticate(token) IN
    IF a.status # 200 THEN a ELSE [status |-> 200, body |-> admitted]

\* the rows the module load puts into templates
Templates == {"Hello World", "Fibonacci"}

\* GET /api/templates: SELECT * FROM templates
TemplatesResponse(token) ==
    LET a == authenticate(token) IN
    IF a.status # 200 THEN a ELSE [status |-> 200, body |-> Templates]

\* an insert that replaces the row it finds instead of throwing
AdmittedInsertThrows_Never(store, email) == FALSE

\* INSERT INTO admitted_users (email) VALUES (?): email is PRIMARY KEY, so the
\* insert throws when the email is in the table
AdmittedInsertThrows(store, email) == email \in store

\* POST /api/admin/admitted: what it answers
AdmitResponse(token, email) ==
    LET a == authenticate(token) IN
    IF a.status # 200 THEN a
    ELSE IF email = "" THEN [status |-> 400, error |-> "Email required"]
    ELSE IF AdmittedInsertThrows(admitted, email)
         THEN [status |-> 400, error |-> "Email already admitted or error occurred"]
         ELSE [status |-> 200, success |-> TRUE]

\* POST /api/admin/admitted: the admitted_users table it leaves
AdmitStore(token, email) ==
    IF AdmitResponse(token, email).status = 200 THEN admitted \cup {email} ELSE admitted

\* POST /api/admin/admitted
Admit(token, email) ==
    /\ Up
    /\ admitted' = AdmitStore(token, email)
    /\ IF AdmitResponse(token, email).status = 200
       THEN \E tie \in Ties : added_at' = InsertRow(email, tie)
       ELSE UNCHANGED added_at
    /\ UNCHANGED <<bootPc, users, cb, issued, now, budget, setNick>>

\* a delete whose WHERE clause matches every row
DeleteAdmitted_All(store, email) == {}

\* DELETE FROM admitted_users WHERE email = ?
DeleteAdmitted(store, email) == store \ {email}

\* DELETE /api/admin/admitted/:email: what it answers
RevokeResponse(token, email) ==
    LET a == authenticate(token) IN
    IF a.status # 200 THEN a ELSE [status |-> 200, success |-> TRUE]

\* DELETE /api/admin/admitted/:email: the admitted_users table it leaves, from `store`
RevokeStore(store, token, email) ==
    IF RevokeResponse(token, email).status = 200 THEN DeleteAdmitted(store, email) ELSE store

\* DELETE /api/admin/admitted/:email
Revoke(token, email) ==
    /\ Up
    /\ admitted' = RevokeStore(admitted, token, email)
    /\ added_at' = IF RevokeResponse(token, email).status = 200
                   THEN DeleteRow(email) ELSE added_at
    /\ UNCHANGED <<bootPc, users, cb, issued, now, budget, setNick>>

\* time passes
Tick ==
    /\ now < MaxTime
    /\ now' = now + 1
    /\ added_at' = [added_at EXCEPT !.open = FALSE]
    /\ UNCHANGED <<bootPc, admitted, users, cb, issued, budget, setNick>>

\* ------------------------------------------------------------ browser
\* origins, cut into the pieces the listener's tests look at
AppOrigin == <<"https://", "pycolab", ".run.app">>
DevOrigin == <<"http://", "localhost", ":3000">>

\* the origins the application is served from: APP_URL, and the PORT on localhost
OwnOrigins == {AppOrigin, DevOrigin}

\* the origins a message event can carry: the sender's, whoever it is
Origins ==
    OwnOrigins \cup {<<"https://", "evil", ".run.app">>,
                     <<"https://", "localhost", ".evil.example">>,
                     <<"https://", "evil", ".example">>}

\* origin.endsWith(suffix)
EndsWith(origin, suffix) == Len(origin) > 0 /\ origin[Len(origin)] = suffix

\* origin.includes(part)
Includes(origin, part) == \E i \in 1 .. Len(origin) : origin[i] = part

\* handleMessage goes on: !(!origin.endsWith('.run.app') && !origin.includes('localhost'))
AcceptsOrigin(origin) == EndsWith(origin, ".run.app") \/ Includes(origin, "localhost")

\* what a message event can carry as data
Payloads == {[type |-> "OAUTH_AUTH_SUCCESS"], [type |-> "OTHER"], Null}

\* event.data?.type
DataType(data) == IF data = Null THEN None ELSE data.type

\* the message the success page posts, as the primary window receives it
SuccessEvent == [origin |-> AppOrigin, data |-> [type |-> "OAUTH_AUTH_SUCCESS"]]

\* the options of res.cookie in the callback
CookieOptions == [httpOnly |-> TRUE, secure |-> TRUE, sameSite |-> "none", maxAge |-> OneWeek]

\* a logout that clears the cookie without the Secure attribute
ClearOptions_NotSecure == [httpOnly |-> TRUE, secure |-> FALSE, sameSite |-> "none"]

\* the options of res.clearCookie in the logout
ClearOptions == [httpOnly |-> TRUE, secure |-> TRUE, sameSite |-> "none"]

\* res.cookie(name, value, options) at time t: the Set-Cookie header (path defaults to "/")
res_cookie(name, value, options, t) ==
    [name |-> name, value |-> value, path |-> "/", expires |-> t + options.maxAge,
     httpOnly |-> options.httpOnly, secure |-> options.secure, sameSite |-> options.sameSite]

\* res.clearCookie(name, options): the same header with an empty value and an
\* expiry at the epoch, before every time of the clock
res_clearCookie(name, options) ==
    [name |-> name, value |-> NoToken, path |-> "/", expires |-> 0 - 1,
     httpOnly |-> options.httpOnly, secure |-> options.secure, sameSite |-> options.sameSite]

\* the browser stores a Set-Cookie header at time t: SameSite=None without
\* Secure is rejected; the cookie of the same name and path is replaced; a
\* cookie that has expired is not kept
SetCookie(cookies, c, t) ==
    IF c.sameSite = "none" /\ ~c.secure THEN cookies
    ELSE {k \in cookies : ~(k.name = c.name /\ k.path = c.path)}
         \cup (IF c.expires > t THEN {c} ELSE {})

\* req.cookies.auth_token of a request the browser sends at time t
AuthCookie(cookies, t) ==
    LET live == {k \in cookies : k.name = "auth_token" /\ k.expires > t}
    IN  IF live = {} THEN NoToken ELSE (CHOOSE k \in live : TRUE).value

\* POST /api/auth/logout: not behind authenticate
LogoutResponse ==
    [status |-> 200, success |-> TRUE, setCookie |-> res_clearCookie("auth_token", ClearOptions)]

\* GET /api/auth/github/url
UrlResponse(clientId) ==
    IF clientId = "" THEN [status |-> 500, error |-> "GitHub Client ID not configured"]
    ELSE [status |-> 200, url |-> "https://github.com/login/oauth/authorize"]

\* const { url } = await res.json(); window.open(url, 'oauth_popup'): without a
\* url the window opens blank
WindowOpen(res) == IF res.status = 200 THEN Popup("consent", 0) ELSE Popup("blank", 0)

\* a denial page that carries the script of the success page
PagePosts_Always(status) == status \in {200, 403}

\* the page of the callback's response posts to window.opener: the page of
\* res.send after the cookie does, the denial page and the plain texts do not
PagePosts(status) == status = 200

\* the page of the callback's response closes its window: at once after the
\* post, or three seconds after a denial
PageCloses(status) == status \in {200, 403}

\* res.ok
res_ok(res) == res.status >= 200 /\ res.status <= 299

\* a fetchUser that stores the body of whatever answer it gets
SetUserOf_Body(res) == IF res_ok(res) THEN res.body ELSE [error |-> res.error]

\* fetchUser, after the answer: setUser(await res.json()) or setUser(null)
SetUserOf(res) == IF res_ok(res) THEN res.body ELSE Null

\* the places free for a who-am-I call
FreeFetch == {i \in Fetches : fetches[i].pc = "free"}

\* the who-am-I calls in flight
InFlightFetches == Fetches \ FreeFetch

\* fetchUser, up to its await: fetch('/api/auth/me') leaves with the cookie of the jar
fetchUser ==
    [fetches EXCEPT ![CHOOSE i \in FreeFetch : \A j \in FreeFetch : i <= j] =
        [pc |-> "sent", cookie |-> AuthCookie(jar, now)]]

\* overtaken with the marks in `from` changed to `to`
Mark(from, to) ==
    [i \in Fetches |-> IF overtaken[i] \in from THEN to ELSE overtaken[i]]

\* the page is loaded: useEffect calls fetchUser and adds the message listener
Mount ==
    /\ Up
    /\ ~mounted
    /\ mounted' = TRUE
    /\ fetches' = fetchUser
    /\ UNCHANGED <<server, user, loading, logoutPc, jar, popup, inbox, overtaken>>

\* the server answers a who-am-I call
ServeMe(i) ==
    /\ Up
    /\ fetches[i].pc = "sent"
    /\ fetches' = [fetches EXCEPT ![i] = [pc |-> "answered", cookie |-> fetches[i].cookie,
                                          res |-> MeResponse(fetches[i].cookie)]]
    /\ UNCHANGED <<server, mounted, user, loading, logoutPc, jar, popup, inbox, overtaken>>

\* fetchUser after its await, with the answer
FetchUserReturn(i) ==
    /\ fetches[i].pc = "answered"
    /\ user' = SetUserOf(fetches[i].res)
    /\ loading' = FALSE
    /\ fetches' = [fetches EXCEPT ![i] = NoFetch]
    /\ overtaken' = [overtaken EXCEPT ![i] = "none"]
    /\ UNCHANGED <<server, mounted, logoutPc, jar, popup, inbox>>

\* fetchUser after its await, when the fetch rejects: catch, setUser(null)
FetchUserThrows(i) ==
    /\ fetches[i].pc = "sent"
    /\ user' = Null
    /\ loading' = FALSE
    /\ fetches' = [fetches EXCEPT ![i] = NoFetch]
    /\ overtaken' = [overtaken EXCEPT ![i] = "none"]
    /\ UNCHANGED <<server, mounted, logoutPc, jar, popup, inbox>>

\* the event passes both tests of handleMessage
Acted(event) == AcceptsOrigin(event.origin) /\ DataType(event.data) = "OAUTH_AUTH_SUCCESS"

\* handleMessage(event): fetchUser() when the event passes, nothing otherwise
handleMessage(event) ==
    IF Acted(event)
    THEN /\ FreeFetch # {}
         /\ fetches' = fetchUser
         /\ overtaken' = Mark({"completed"}, "none")
    ELSE UNCHANGED <<fetches, overtaken>>

\* the primary window handles the message the popup's page has posted
PopupMessage ==
    /\ mounted
    /\ inbox # <<>>
    /\ handleMessage(Head(inbox))
    /\ inbox' = Tail(inbox)
    /\ UNCHANGED <<server, mounted, user, loading, logoutPc, jar, popup>>

\* the primary window handles a message some other window has posted to it;
\* what the event carries depends on nothing here, so the post is not kept apart
ForeignMessage(event) ==
    /\ mounted
    /\ handleMessage(event)
    /\ UNCHANGED <<server, mounted, user, loading, logoutPc, jar, popup, inbox>>

\* handleLogin, from the button of the sign-in screen
HandleLogin ==
    /\ Up
    /\ mounted /\ ~loading /\ user = Null
    /\ \E clientId \in {"", "id"} : popup' = WindowOpen(UrlResponse(clientId))
    /\ UNCHANGED <<server, mounted, user, loading, fetches, logoutPc, jar, inbox, overtaken>>

\* the provider sends the popup back to the callback address
PopupCallback(s) ==
    /\ popup.pc = "consent"
    /\ CallbackStart(s)
    /\ popup' = Popup("callback", s)
    /\ UNCHANGED <<mounted, user, loading, fetches, logoutPc, jar, inbox, overtaken>>

\* the popup gets the response of its callback request: the browser stores
\* the cookie of a success, and the page runs its script
PopupLoad ==
    /\ popup.pc = "callback"
    /\ cb[popup.slot].pc = "done"
    /\ LET res == cb[popup.slot] IN
         /\ jar' = IF res.status = 200
                   THEN SetCookie(jar, res_cookie("auth_token", res.token, CookieOptions,
                                                  res.token.iat), now)
                   ELSE jar
         /\ inbox' = IF PagePosts(res.status) THEN Append(inbox, SuccessEvent) ELSE inbox
         /\ popup' = IF res.status = 200 THEN Popup("closed", 0)
                     ELSE IF PageCloses(res.status) THEN Popup("closing", 0)
                     ELSE Popup("text", 0)
    /\ UNCHANGED <<server, mounted, user, loading, fetches, logoutPc, overtaken>>

\* the popup goes away: the timer of the denial page, or the user closes it
PopupClose ==
    /\ popup.pc # "closed"
    /\ popup' = Popup("closed", 0)
    /\ UNCHANGED <<server, mounted, user, loading, fetches, logoutPc, jar, inbox, overtaken>>

\* handleLogout, up to its await
HandleLogout ==
    /\ mounted /\ ~loading /\ user # Null
    /\ logoutPc = "idle"
    /\ logoutPc' = "sent"
    /\ overtaken' = [i \in Fetches |-> IF i \in InFlightFetches THEN "started" ELSE "none"]
    /\ UNCHANGED fetches
    /\ UNCHANGED <<server, mounted, user, loading, jar, popup, inbox>>

\* the server answers the logout, and the browser stores the cookie of the answer
LogoutAnswer ==
    /\ Up
    /\ logoutPc = "sent"
    /\ jar' = SetCookie(jar, LogoutResponse.setCookie, now)
    /\ logoutPc' = "answered"
    /\ UNCHANGED <<server, mounted, user, loading, fetches, popup, inbox, overtaken>>

\* the logout's fetch rejects: handleLogout ends there
LogoutThrows ==
    /\ logoutPc = "sent"
    /\ logoutPc' = "idle"
    /\ overtaken' = Mark({"started"}, "none")
    /\ UNCHANGED fetches
    /\ UNCHANGED <<server, mounted, user, loading, jar, popup, inbox>>

\* handleLogout after its await: setUser(null)
LogoutReturn ==
    /\ logoutPc = "answered"
    /\ user' = Null
    /\ logoutPc' = "idle"
    /\ overtaken' = Mark({"started"}, "completed")
    /\ UNCHANGED fetches
    /\ UNCHANGED <<server, mounted, loading, jar, popup, inbox>>

\* AdminPanel.handleRemove, in the signed-in window: DELETE with the jar's cookie
HandleRemove(email) ==
    /\ mounted /\ ~loading /\ user # Null
    /\ Revoke(AuthCookie(jar, now), email)
    /\ UNCHANGED client

Next ==
    \/ \E p \in Procs : BootCount(p) /\ UNCHANGED client
    \/ \E p \in Procs : BootSeed(p) /\ UNCHANGED client
    \/ \E p \in Procs : Listen(p) /\ UNCHANGED client
    \/ \E s \in Slots : CallbackStart(s) /\ UNCHANGED client
    \/ \E s \in Slots : ProviderToken(s) /\ UNCHANGED client
    \/ \E s \in Slots : ProviderProfile(s) /\ UNCHANGED client
    \/ \E s \in Slots : EmailsFail(s) /\ UNCHANGED client
    \/ \E s \in Slots : EmailsLogin(s) /\ UNCHANGED client
    \/ \E token \in Credentials, nickname \in NewNicks \cup BadNicks :
         UpdateNickname(token, nickname) /\ UNCHANGED client
    \/ \E token \in Credentials, email \in Emails \cup {""} :
         Admit(token, email) /\ UNCHANGED client
    \/ \E token \in Credentials, email \in Emails :
         Revoke(token, email) /\ UNCHANGED client
    \/ Tick /\ UNCHANGED client

Spec == Init /\ [][Next]_vars

SpecTwo == InitTwo /\ [][Next]_vars

SpecMore == InitMore /\ [][Next]_vars

\* the server and one browser on it
NextClient ==
    \/ \E p \in Procs : BootCount(p) /\ UNCHANGED client
    \/ \E p \in Procs : BootSeed(p) /\ UNCHANGED client
    \/ \E p \in Procs : Listen(p) /\ UNCHANGED client
    \/ \E s \in Slots : PopupCallback(s)
    \/ \E s \in Slots : ProviderToken(s) /\ UNCHANGED client
    \/ \E s \in Slots : ProviderProfile(s) /\ UNCHANGED client
    \/ \E s \in Slots : EmailsFail(s) /\ UNCHANGED client
    \/ \E s \in Slots : EmailsLogin(s) /\ UNCHANGED client
    \/ Tick /\ UNCHANGED client
    \/ Mount
    \/ \E i \in Fetches : ServeMe(i)
    \/ \E i \in Fetches : FetchUserReturn(i)
    \/ \E i \in Fetches : FetchUserThrows(i)
    \/ PopupMessage
    \/ \E origin \in Origins, data \in Payloads :
         ForeignMessage([origin |-> origin, data |-> data])
    \/ HandleLogin
    \/ PopupLoad
    \/ PopupClose
    \/ HandleLogout
    \/ LogoutAnswer
    \/ LogoutThrows
    \/ LogoutReturn
    \/ \E email \in Emails : HandleRemove(email)

SpecClient == Init /\ [][NextClient]_vars

\* ------------------------------------------------------------ properties
\* slot s has answered a callback that got as far as the admission check
Checked(s) == cb[s].pc = "done" /\ cb[s].check # "none"

\* slot s has answered with the success page and the cookie
Succeeded(s) == cb[s].pc = "done" /\ cb[s].status = 200 /\ cb[s].token # NoToken

\* this step is slot s running the handler from its last await to its response
Answers(s) == cb[s].pc = "emails" /\ cb'[s].pc = "done"

\* C1: a callback that resolved an email ends in success (the user has a row,
\* the cookie is set, the success page is sent) exactly when the email was in
\* admitted_users at the moment the admission row was read.
C1_SuccessIffAdmitted ==
    \A s \in Slots :
        Checked(s) =>
            ((Succeeded(s) /\ UsersByEmail(cb[s].email) # {}) <=> cb[s].check = "in")

\* C2: a callback whose email was not in admitted_users answers 403, writes no
\* users row and sets no cookie; a callback writes to users only in a run that
\* read the email as admitted first.
C2_DeniedWritesNothing ==
    [][\A s \in Slots :
          Answers(s) =>
              /\ cb'[s].check = "out" => cb'[s].status = 403
              /\ cb'[s].check # "in" =>
                    users' = users /\ issued' = issued /\ cb'[s].token = NoToken]_vars

C2_Witness ==
    \E s \in Slots :
        /\ Checked(s) /\ cb[s].check = "out" /\ cb[s].status = 403
        /\ admitted # {} /\ users # {}

\* C3: users holds at most one row per email; the id of an email's row never
\* changes; every token issued for an email carries the same id.
C3_OneRowStableId ==
    /\ [](\A u, v \in users : u.email = v.email => u = v)
    /\ [][\A u \in users : \E v \in users' : v.email = u.email /\ v.id = u.id]_vars
    /\ [](\A x, y \in issued : x.payload.email = y.payload.email
                                  => x.payload.id = y.payload.id)

\* two tokens were issued for one email, and its row has had its nickname changed
C3_Witness ==
    \E x, y \in issued :
        /\ x # y /\ x.payload.email = y.payload.email
        /\ \E u \in users : u.email = x.payload.email /\ u.nickname \in NewNicks

\* C4: a login never changes a stored nickname: every row's nickname is the
\* body of the last accepted nickname update for it, or the handle of the login
\* that created it when there was none; and the token a login issues carries
\* the nickname stored in the row at that moment.
C4_NicknameSticky ==
    /\ [](\A u \in users : u.nickname = setNick[u.id])
    /\ [][\A s \in Slots :
             Answers(s) /\ cb'[s].status = 200 =>
                 /\ \A u \in users : \E v \in users' : v.id = u.id /\ v.nickname = u.nickname
                 /\ jwt_decoded(cb'[s].token).nickname = setNick'[jwt_decoded(cb'[s].token).id]]_vars

\* a login has answered with a token that carries a nickname set by an update
C4_Witness ==
    \E s \in Slots : Succeeded(s) /\ jwt_decoded(cb[s].token).nickname \in NewNicks

C6_ClaimsAreRow ==
    [][\A s \in Slots :
          Answers(s) /\ cb'[s].status = 200 =>
              \E u \in users' :
                  /\ u.email = cb'[s].email
                  /\ \A k \in ClaimKeys : jwt_decoded(cb'[s].token)[k] = u[k]]_vars

\* C7 as stated: the who-am-I answer to a valid token shows the nickname the
\* token was issued with.
C7_MeShowsIssuedNickname ==
    \A t \in Tokens :
        MeResponse(t).status = 200 => MeResponse(t).body.nickname = jwt_decoded(t).nickname

\* C7 amended: the who-am-I answer to a valid token is the users row of the
\* token's id as stored now, so it shows the last nickname written; the token's
\* own claims keep the nickname it was issued with.
C7_MeShowsStoredNickname ==
    \A x \in issued :
        MeResponse(x.token).status = 200 =>
            /\ MeResponse(x.token).body \in users
            /\ MeResponse(x.token).body.id = x.payload.id
            /\ MeResponse(x.token).body.nickname = setNick[x.payload.id]
            /\ authenticate(x.token).user.nickname = x.payload.nickname

\* a valid token issued before a nickname update of its user
C7_Witness ==
    \E x \in issued :
        /\ MeResponse(x.token).status = 200
        /\ setNick[x.payload.id] \in NewNicks
        /\ x.payload.nickname \notin NewNicks

\* every started process is past the bootstrap of admitted_users
Bootstrapped == \A p \in Procs : bootPc[p] \notin {"count", "seed"}

\* C8: of two initialisations on an empty admitted_users none gets to its
\* insert after the seed row is already there, none ends in an error, and
\* they leave exactly the one seed row.
C8_BootstrapGuarded ==
    /\ \A p \in Procs : ~(bootPc[p] = "seed" /\ SeedEmail \in admitted)
    /\ \A p \in Procs : bootPc[p] # "sqlite_error"
    /\ Bootstrapped /\ issued = {} => admitted = {SeedEmail}

\* C9: once a process is past the bootstrap, admitted_users is never empty.
C9_AdmittedNeverEmpty ==
    (\E p \in Procs : bootPc[p] \in {"listen", "serving", "eaddrinuse"}) => admitted # {}

\* C10: two callbacks in flight at the same time that resolve the same
\* admitted email both end in success with the same id, and the email has
\* exactly one row: none of them ends in the error of a failed insert.
C10_ConcurrentUpsert ==
    \A s, r \in Slots :
        /\ s # r /\ Checked(s) /\ Checked(r)
        /\ cb[s].overlap /\ cb[r].overlap
        /\ cb[s].email = cb[r].email
        /\ cb[s].check = "in" /\ cb[r].check = "in"
        => /\ Succeeded(s) /\ Succeeded(r)
           /\ jwt_decoded(cb[s].token).id = jwt_decoded(cb[r].token).id
           /\ Cardinality(UsersByEmail(cb[s].email)) = 1

\* the credentials a request can carry that authenticate lets through now
Valid == {token \in Credentials : authenticate(token).status = 200}

\* C11: admitting an email that is in admitted_users answers 400 and leaves the
\* table as it is (one row for the email); admitting one that is not answers
\* success and adds exactly that email; the table only ever grows by one email
\* that was not there.
C11_AdmitConflict ==
    /\ [](\A token \in Valid, email \in Emails :
             IF email \in admitted
             THEN /\ AdmitResponse(token, email).status = 400
                  /\ AdmitStore(token, email) = admitted
             ELSE /\ AdmitResponse(token, email).status = 200
                  /\ AdmitStore(token, email) = admitted \cup {email}
                  /\ Cardinality(AdmitStore(token, email)) = Cardinality(admitted) + 1)
    /\ [][admitted' # admitted /\ admitted \subseteq admitted' =>
             \E email \in Emails : email \notin admitted /\ admitted' = admitted \cup {email}]_vars

\* an admit has added an email, and a request can still carry a valid credential
C11_Witness ==
    /\ \E email \in admitted : email # SeedEmail
    /\ Valid # {}

\* C12: revoking an email that is not in admitted_users answers success and
\* leaves the table as it is; revoking an email twice leaves what revoking it
\* once leaves; a revoke removes no email but the one it names.
C12_RevokeIdempotent ==
    /\ [](\A token \in Valid, email \in Emails :
             LET once == RevokeStore(admitted, token, email) IN
             /\ RevokeResponse(token, email).status = 200
             /\ email \notin admitted => once = admitted
             /\ RevokeStore(once, token, email) = once
             /\ email \notin once
             /\ admitted \ once \subseteq {email})
    /\ [][\A email \in admitted : email \notin admitted' => admitted' = admitted \ {email}]_vars

\* a revoke has removed the seed while another email stays admitted
C12_Witness ==
    /\ Bootstrapped
    /\ SeedEmail \notin admitted
    /\ admitted # {}
    /\ Valid # {}

\* the credentials a request can carry that are missing, wrongly signed or expired
Unfit ==
    {token \in Credentials :
        \/ token = NoToken
        \/ token # NoToken /\ (token.sig # JWT_SECRET \/ now >= token.iat + OneWeek)}

\* C13: a request without a credential, with a wrongly signed one or with an
\* expired one gets 401 from who-am-I, nickname update, list, admit, revoke and
\* template listing, and leaves users and admitted_users as they are.
C13_UnauthorizedDoesNothing ==
    \A token \in Unfit :
        /\ MeResponse(token).status = 401
        /\ ListAdmittedResponse(token).status = 401
        /\ TemplatesResponse(token).status = 401
        /\ \A nickname \in NewNicks \cup BadNicks :
              /\ NicknameResponse(token, nickname).status = 401
              /\ NicknameStore(token, nickname) = users
        /\ \A email \in Emails \cup {""} :
              /\ AdmitResponse(token, email).status = 401
              /\ AdmitStore(token, email) = admitted
              /\ RevokeResponse(token, email).status = 401
              /\ RevokeStore(admitted, token, email) = admitted

\* the server holds a user and an admitted email, and a request can carry no
\* credential, a wrongly signed one or an expired one
C13_Witness ==
    /\ users # {} /\ admitted # {}
    /\ {NoToken, Forged} \subseteq Unfit
    /\ \E token \in Tokens : token \in Unfit

\* C15: a token lives one week from its issuance: at any time before
\* issuance + 7 days authenticate lets it through, at issuance + 7 days and
\* later it answers 401, whatever has happened to the stores in between.
C15_SevenDayLifetime ==
    \A x \in issued :
        /\ x.token.exp = x.token.iat + OneWeek
        /\ now < x.token.iat + OneWeek =>
              authenticate(x.token).status = 200 /\ MeResponse(x.token).status = 200
        /\ now >= x.token.iat + OneWeek =>
              authenticate(x.token).status = 401 /\ MeResponse(x.token).status = 401

\* a token at the instant of its expiry, after its email was revoked or its
\* user renamed, and a token that is still valid
C15_Witness ==
    /\ \E x \in issued :
          /\ now = x.token.iat + OneWeek
          /\ \/ x.payload.email \notin admitted
             \/ \E u \in users : u.id = x.payload.id /\ u.nickname \in NewNicks
    /\ \E x \in issued : now < x.token.iat + OneWeek

\* this step is slot s answering a request at its precondition check, before
\* any call to the provider
Refuses(s) == cb[s].pc \in {"idle", "done"} /\ cb'[s] # cb[s] /\ cb'[s].pc = "done"

\* C17: a callback request without code, client id or client secret answers
\* 500, calls no provider endpoint, writes nothing and sets no cookie.
C17_MissingConfigIs500 ==
    [][\A s \in Slots :
          Refuses(s) =>
              /\ cb'[s].status = 500
              /\ cb'[s].token = NoToken
              /\ users' = users /\ admitted' = admitted /\ issued' = issued]_vars

\* C20: within one callback the profile is fetched only with an access token,
\* the email list only after the profile, the admission row is read only for a
\* resolved email, users is written only after the read found the email, and
\* the cookie is set only with the row in users; without an access token the
\* request ends at once, with no profile and no email list fetched.
C20_StepsInOrder ==
    [][/\ \A s \in Slots :
             /\ cb'[s].pc = "token" /\ cb[s].pc # "token" => cb[s].pc \in {"idle", "done"}
             /\ cb'[s].pc = "profile" /\ cb[s].pc # "profile" =>
                   cb[s].pc = "token" /\ cb'[s].accessToken # None
             /\ cb'[s].pc = "emails" /\ cb[s].pc # "emails" =>
                   /\ cb[s].pc = "profile" /\ cb[s].accessToken # None
                   /\ cb'[s].userData \in ProfileAnswers
             /\ cb[s].pc = "token" /\ cb'[s].pc # "token" /\ cb'[s].accessToken = None =>
                   cb'[s].pc = "done" /\ cb'[s].status = 500 /\ cb'[s].check = "none"
             /\ cb'[s].check \notin {"none", cb[s].check} =>
                   cb[s].pc = "emails" /\ cb'[s].email \in Emails
             /\ cb'[s].token \notin {NoToken, cb[s].token} =>
                   /\ cb[s].pc = "emails" /\ cb'[s].check = "in"
                   /\ \E u \in users' : u.email = cb'[s].email
       /\ (\E u \in users' : \A v \in users : v.email # u.email) =>
             \E s \in Slots : cb[s].pc = "emails" /\ cb'[s].pc = "done" /\ cb'[s].check = "in"]_vars

\* a callback went through all its steps to the cookie, and another ended when
\* the provider gave it no access token
C20_Witness ==
    \E s, r \in Slots :
        /\ Succeeded(s)
        /\ cb[r].pc = "done" /\ cb[r].status = 500 /\ cb[r].check = "none"

\* the place of a callback request among its steps
Rank(pc) ==
    CASE pc = "idle" -> 0 [] pc = "token" -> 1 [] pc = "profile" -> 2
      [] pc = "emails" -> 3 [] pc = "done" -> 4

\* the request of slot s ends in this step after a provider call of its own
\* has failed: no access token, no email, a rejected fetch (it ends before
\* the admission row is read), or an error body for the profile
ProviderFailed(s) ==
    /\ InFlight(s) /\ cb'[s].pc = "done"
    /\ cb'[s].check = "none" \/ cb[s].userData = ProfileError

\* C21: a callback one of whose provider calls failed answers 500, leaves
\* users as it is and sets no cookie; and a request in flight only moves
\* forward through the three provider calls, so none is made twice
C21_ProviderFailureTerminal ==
    [][\A s \in Slots :
          /\ ProviderFailed(s) =>
                /\ cb'[s].status = 500 /\ cb'[s].token = NoToken
                /\ users' = users /\ issued' = issued
          /\ (InFlight(s) /\ cb'[s].pc # cb[s].pc) => Rank(cb'[s].pc) > Rank(cb[s].pc)]_vars

\* the entries of the list that are flagged primary
Flagged(list) == {i \in 1 .. Len(list) : list[i].primary}

\* the selection is the one described: the first entry flagged primary, the
\* first entry when none is flagged, nothing for an empty list
SelectsAsDescribed ==
    \A list \in EmailLists :
        /\ Flagged(list) # {} =>
              \E i \in Flagged(list) :
                  /\ \A j \in Flagged(list) : i <= j
                  /\ SelectEmail(list) = list[i].email
        /\ (Flagged(list) = {} /\ list # <<>>) => SelectEmail(list) = list[1].email
        /\ list = <<>> => SelectEmail(list) = None

\* the emails a list of the provider can make the handler go on with
Selectable == {SelectEmail(list) : list \in EmailLists} \ {None}

\* C22: for every list the provider can return, the selected email is that of
\* the first entry flagged primary, of the first entry when none is flagged,
\* and none for an empty list; a request that gets its list either ends with
\* 500 without an admission check, users and tokens as they were, or goes to
\* the admission check with an email one of the lists selects
C22_EmailSelection ==
    /\ []SelectsAsDescribed
    /\ [][\A s \in Slots :
             Answers(s) =>
                 \/ /\ cb'[s].check = "none" /\ cb'[s].status = 500
                    /\ cb'[s].token = NoToken /\ users' = users /\ issued' = issued
                 \/ /\ cb'[s].check # "none"
                    /\ cb'[s].email \in Selectable]_vars

\* one callback went to the admission check with the second email, and
\* another ended with 500 before any check
C22_Witness ==
    \E s, r \in Slots :
        /\ Checked(s) /\ cb[s].email = "b@x.com"
        /\ cb[r].pc = "done" /\ cb[r].status = 500 /\ cb[r].check = "none"

\* ------------------------------------------------------------ browser properties
\* C14: a message whose origin is not one of the application's own is ignored
\* by the primary window whatever it carries: no who-am-I call starts and
\* user and loading stay as they are
C14_ForeignOriginIgnored ==
    [][\A origin \in Origins \ OwnOrigins, data \in Payloads :
         ForeignMessage([origin |-> origin, data |-> data])
           => fetches' = fetches /\ user' = user /\ loading' = loading]_vars

\* the cookies of the jar that carry the credential
Held(cookies) == {k \in cookies : k.name = "auth_token"}

\* the popup gets the response r of its callback request in this step
Loads(r) == popup.pc = "callback" /\ popup'.pc # "callback" /\ cb[popup.slot] = r /\ r.pc = "done"

\* C16: the logout clears auth_token with the HttpOnly, Secure and SameSite
\* attributes the callback set it with; when the logout's answer arrives the
\* browser holds no credential and a who-am-I call would get 401; and the jar
\* gets a credential only from the popup's load of a callback response of
\* status 200
C16_LogoutClearsCookie ==
    /\ [](/\ ClearOptions.httpOnly = CookieOptions.httpOnly
          /\ ClearOptions.secure = CookieOptions.secure
          /\ ClearOptions.sameSite = CookieOptions.sameSite)
    /\ [][ /\ (logoutPc = "sent" /\ logoutPc' = "answered")
               => /\ Held(jar') = {}
                  /\ AuthCookie(jar', now) = NoToken
                  /\ MeResponse(AuthCookie(jar', now)).status = 401
           /\ (Held(jar') \ Held(jar) # {})
               => \E r \in {cb[s] : s \in Slots} : Loads(r) /\ r.status = 200]_vars

\* the logout's answer has arrived at a browser that was signed in, and the jar is empty
C16_Witness == logoutPc = "answered" /\ user # Null /\ jar = {} /\ issued # {}

\* the primary window handles the event in this step
Handles(event) ==
    \/ ForeignMessage(event)
    \/ PopupMessage /\ event = Head(inbox)

\* C18: user changes to a non-null value only when a who-am-I call returns
\* with status 200, to the body of that answer; a message that the window
\* handles starts one who-am-I call when its origin passes the test and its
\* type is OAUTH_AUTH_SUCCESS, and none otherwise; a call that ends without a
\* 200 leaves user null; and a call is answered 200 only for a cookie the
\* server has issued
C18_UserOnlyFromWhoAmI ==
    /\ [][ /\ (user' # user /\ user' # Null)
               => \E i \in Fetches :
                    /\ fetches[i].pc = "answered" /\ fetches'[i] = NoFetch
                    /\ fetches[i].res.status = 200
                    /\ user' = fetches[i].res.body
           /\ (fetches' # fetches \/ inbox' # inbox)
               => \A origin \in Origins, data \in Payloads :
                    Handles([origin |-> origin, data |-> data])
                      => IF AcceptsOrigin(origin) /\ data = [type |-> "OAUTH_AUTH_SUCCESS"]
                         THEN /\ Cardinality(InFlightFetches') = Cardinality(InFlightFetches) + 1
                              /\ \A i \in InFlightFetches : fetches'[i] = fetches[i]
                         ELSE fetches' = fetches
           /\ \A i \in Fetches :
                (/\ fetches[i].pc # "free" /\ fetches'[i] = NoFetch
                 /\ ~(fetches[i].pc = "answered" /\ fetches[i].res.status = 200))
                  => user' = Null]_vars
    /\ [](\A i \in Fetches :
            (fetches[i].pc = "answered" /\ fetches[i].res.status = 200)
              => fetches[i].cookie \in Tokens)

\* the window shows a signed-in user and holds the 401 answer of a later call
C18_Witness ==
    /\ user # Null
    /\ \E i \in Fetches : fetches[i].pc = "answered" /\ fetches[i].res.status = 401

\* C19: when the popup loads a callback response that is not a success, the
\* denial page included, nothing is posted and the primary window's user,
\* loading and calls stay as they are; a message is posted to the primary
\* window only by the load of a response of status 200 whose request found
\* the email admitted and which carries the cookie
C19_DenialNeverSignals ==
    [][/\ \A r \in {cb[s] : s \in Slots} :
            (Loads(r) /\ r.status # 200)
              => /\ inbox' = inbox /\ jar' = jar
                 /\ user' = user /\ loading' = loading /\ fetches' = fetches
       /\ (Len(inbox') > Len(inbox))
            => \E r \in {cb[s] : s \in Slots} :
                 /\ Loads(r) /\ r.status = 200 /\ r.check = "in" /\ r.token # NoToken
                 /\ (now < r.token.iat + OneWeek) => (AuthCookie(jar', now) = r.token)
                 /\ inbox' = Append(inbox, SuccessEvent)]_vars

\* the popup shows the denial page; the primary window is still signed out
\* and has nothing to handle
C19_Witness ==
    /\ popup.pc = "closing"
    /\ user = Null /\ ~loading /\ inbox = <<>> /\ InFlightFetches = {}
    /\ \E s \in Slots : cb[s].status = 403

\* C23: whether authenticate lets a credential through is decided by its
\* signature and its expiry against the clock and by nothing else; an issued
\* token that has not expired is let through by every protected route,
\* whether or not its email is still admitted and whether or not the browser
\* has logged out since
C23_ValidationIgnoresStores ==
    /\ \A token \in Credentials \ {NoToken} :
          authenticate(token).status = 200 <=> (token.sig = JWT_SECRET /\ now < token.exp)
    /\ \A x \in issued :
          now < x.token.exp =>
              /\ MeResponse(x.token).status = 200
              /\ ListAdmittedResponse(x.token).status = 200
              /\ TemplatesResponse(x.token).status = 200
              /\ \A nickname \in NewNicks \cup BadNicks :
                    NicknameResponse(x.token, nickname).status \in {200, 400}
              /\ \A email \in Emails :
                    /\ AdmitResponse(x.token, email).status \in {200, 400}
                    /\ RevokeResponse(x.token, email).status = 200

\* a token that has not expired, whose email has been revoked and whose
\* browser has logged out since: the logout's answer emptied the jar
C23_Witness ==
    /\ \E x \in issued : now < x.token.exp /\ x.payload.email \notin admitted
    /\ Held(jar) = {} /\ user = Null /\ logoutPc = "idle" /\ mounted

\* C24: a callback that succeeds after another request was in flight beside
\* it issues a token for the email of its own exchange with the picture of its
\* own exchange; for an email without a row it inserts exactly the row made of
\* the id, email, handle and picture of its own exchange and signs the same
\* id and handle; for an email with a row it leaves users as it is and signs
\* the id and nickname of that row; and it changes no other request. Each
\* callback reads and writes users in this one step, so the table after a run
\* is the table of the callbacks run one after another in the order of these steps.
C24_NoCrossInterference ==
    [][\A s \in Slots :
          (Answers(s) /\ cb'[s].overlap /\ cb'[s].status = 200) =>
              LET own == cb[s].userData
                  p   == jwt_decoded(cb'[s].token)
                  old == UsersByEmail(cb'[s].email)
              IN  /\ p.email = cb'[s].email /\ p.avatar_url = own.avatar_url
                  /\ old = {} =>
                        /\ p.id = toString(own.id) /\ p.nickname = own.login
                        /\ users' = users \cup {[id |-> toString(own.id), email |-> cb'[s].email,
                                                  nickname |-> own.login,
                                                  avatar_url |-> own.avatar_url]}
                  /\ old # {} =>
                        /\ users' = users
                        /\ \A u \in old : p.id = u.id /\ p.nickname = u.nickname
                  /\ \A r \in Slots \ {s} : cb'[r] = cb[r]]_vars

\* two callbacks that were in flight together have both succeeded, for two
\* provider accounts with two emails, and users holds the row of each
C24_Witness ==
    \E s, r \in Slots :
        /\ Succeeded(s) /\ Succeeded(r) /\ cb[s].overlap /\ cb[r].overlap
        /\ cb[s].email # cb[r].email
        /\ jwt_decoded(cb[s].token).id # jwt_decoded(cb[r].token).id
        /\ \A t \in {s, r} :
              \E u \in users : u.email = cb[t].email /\ u.id = jwt_decoded(cb[t].token).id

\* C26: admitted_users changes only in a step of the bootstrap insert, of an
\* admit or of a revoke, and such a step touches no callback request, no users
\* row and no token; callbacks and nickname updates leave it as it is; every
\* users row keeps its id and email for ever, so the emails of users only grow
C26_Frame ==
    [][/\ admitted' # admitted =>
             /\ cb' = cb /\ users' = users /\ issued' = issued /\ setNick' = setNick
             /\ \/ /\ \E p \in Procs : bootPc[p] = "seed" /\ bootPc'[p] = "listen"
                   /\ admitted' = admitted \cup {SeedEmail}
                \/ /\ bootPc' = bootPc
                   /\ \E token \in Valid, email \in Emails :
                         \/ admitted' = AdmitStore(token, email)
                         \/ admitted' = RevokeStore(admitted, token, email)
       /\ \A u \in users : \E v \in users' : v.id = u.id /\ v.email = u.email
       /\ {u.email : u \in users} \subseteq {u.email : u \in users'}]_vars

\* the seed has been revoked and another email admitted, and a user has
\* changed the nickname of its row
C26_Witness ==
    /\ admitted = {"b@x.com"}
    /\ \E u \in users : u.nickname \in NewNicks
    /\ \E s \in Slots : Succeeded(s)

\* the users row a token names: the row with the token's id and email
RowOf(x) == {u \in users : u.id = x.payload.id /\ u.email = x.payload.email}

\* C28: every token issued names an existing user, in every state: users
\* holds a row with the token's id and email; and a token is issued only by a
\* callback that read its email as admitted, in a step that leaves the
\* admitted table alone, so that the email is admitted when the token is issued
C28_TokenNamesUser ==
    /\ [](\A x \in issued : RowOf(x) # {})
    /\ [][issued' # issued =>
            /\ admitted' = admitted
            /\ \E s \in Slots :
                  /\ cb[s].pc = "emails" /\ cb'[s].pc = "done"
                  /\ cb'[s].status = 200 /\ cb'[s].check = "in"
                  /\ cb'[s].email \in admitted
                  /\ \E x \in issued' :
                        /\ issued' = issued \cup {x}
                        /\ x.token = cb'[s].token
                        /\ x.payload.email = cb'[s].email
                        /\ \E u \in users' : u.id = x.payload.id /\ u.email = x.payload.email]_vars

\* a token is out for a user whose email has been revoked since, and its row
\* is still there
C28_Witness ==
    /\ \E x \in issued : x.payload.email \notin admitted /\ RowOf(x) # {}
    /\ \E s \in Slots : /\ Succeeded(s)
                         /\ \E u \in users : u.email = cb[s].email

\* C27: once handleLogout has completed and set user to null, user stays null
\* until a later accepted success message: a who-am-I call that was in flight
\* when the logout started, and returns after it completed, leaves user null
C27_LogoutStays ==
    [][\A i \in Fetches :
          (/\ fetches[i].pc = "answered" /\ overtaken[i] = "completed"
           /\ fetches'[i] = NoFetch
           /\ user = Null)
          => user' = Null]_vars

\* row j of admitted_users was inserted after row i, and both by an admit
\* operation: the bootstrap inserts before the process listens, into an empty
\* table, and never inserts an email other than its own
SuccessiveAdmits(i, j) ==
    /\ i < j
    /\ added_at.rows[i].email # SeedEmail

\* C25: the list holds every admitted email exactly once, and of two emails
\* admitted by successive admit operations the one admitted later comes
\* before the other, in every order the query may return
C25_MostRecentFirst ==
    \A out \in ListOrders :
        /\ {added_at.rows[out[a]].email : a \in DOMAIN out} = admitted
        /\ Len(added_at.rows) = Cardinality(admitted)
        /\ \A i, j \in DOMAIN out :
              SuccessiveAdmits(i, j) =>
                \E a, b \in DOMAIN out : a < b /\ out[a] = j /\ out[b] = i

====
